---- MODULE Spec2Model ----
(***************************************************************************)
(* Model of the Celery task command() of openrelik-worker-exif             *)
(* (src/src/tasks.py): for every resolved input file it allocates an       *)
(* output file, runs "exiftool [-json] <path>" as a child process with     *)
(* stdout redirected into that file, waits for it, and raises on a         *)
(* non-zero exit; after the loop it raises when nothing was produced and   *)
(* otherwise returns create_task_result(...).                              *)
(*                                                                         *)
(* The task is cut at its blocking points (Popen / communicate), the child *)
(* process is a separate process of the model (it writes its stdout and    *)
(* exits with some return code and some stderr bytes).                     *)
(***************************************************************************)
EXTENDS Integers, Sequences, FiniteSets, TLC

VARIABLES
    task_config,          \* parameter: [isNone, dict]
    workflow_id,          \* parameter
    output_path,          \* parameter
    pc,                   \* position of command()
    input_files,          \* local: list returned by get_input_files
    json_output_enabled,  \* local
    base_command,         \* local: list of tokens
    base_command_string,  \* local
    idx,                  \* number of inputs the for loop has taken
    output_file,          \* local: the OutputFile of the current iteration
    output_files,         \* local: list of serialized output files
    stderr,               \* local: the bytes communicate() captured last
    allocated,            \* log of create_output_file calls (their results)
    handles,              \* log of open() calls: [path, mode, closed]
    files,                \* filesystem: path -> [truncations, writers]
    popens,               \* log of subprocess.Popen calls
    children,             \* child process table, child i is popens[i]
    builderCalls,         \* log of create_task_result calls
    returned,             \* the value command() returned (sequence of <= 1)
    error                 \* the exception command() raised

vars == <<task_config, workflow_id, output_path, pc, input_files,
          json_output_enabled, base_command, base_command_string, idx,
          output_file, output_files, stderr, allocated, handles, files,
          popens, children, builderCalls, returned, error>>

----------------------------------------------------------------------------
(* Bounds of the model *)

MaxInputs == 3

MaxStderrLen == 1

----------------------------------------------------------------------------
(* Input universes *)

\* Python dict as a function on a set of keys; {} is the empty function.
EmptyDict == [k \in {} |-> FALSE]

DictWith(v) == [k \in {"json_output"} |-> v]

\* task_config is None, {}, {"json_output": True} or {"json_output": False}
TaskConfigs ==
    {[isNone |-> TRUE, dict |-> EmptyDict], [isNone |-> FALSE, dict |-> EmptyDict]}
    \cup {[isNone |-> FALSE, dict |-> DictWith(v)] : v \in BOOLEAN}

WorkflowIds == {"wf-1", "wf-2"}

OutputPaths == {"/out"}

FileUniverse ==
    {[path |-> "/in/a.jpg", display_name |-> "a.jpg"],
     [path |-> "/in/b.png", display_name |-> "b.png"]}

InputLists == UNION {[1..n -> FileUniverse] : n \in 0..MaxInputs}

ReturnCodes == {0, 1, 2}

\* bytes a child can leave on stderr: 'a' and 0xff (never valid in UTF-8)
ByteAlphabet == {97, 255}

StderrValues == UNION {[1..n -> ByteAlphabet] : n \in 0..MaxStderrLen}

----------------------------------------------------------------------------
(* Pure helpers *)

\* dict.get(key, default)
Get(d, key, default) == IF key \in DOMAIN d THEN d[key] ELSE default

\* task_config or {}
OrEmpty(cfg) == IF cfg.isNone THEN EmptyDict ELSE cfg.dict

JsonOutputEnabled(cfg) == Get(OrEmpty(cfg), "json_output", FALSE)

BaseCommand(json) == IF json THEN <<"exiftool", "-json">> ELSE <<"exiftool">>

RECURSIVE Join(_, _)
\* sep.join(tokens)
Join(sep, tokens) ==
    IF Len(tokens) = 0 THEN ""
    ELSE IF Len(tokens) = 1 THEN tokens[1]
    ELSE tokens[1] \o sep \o Join(sep, Tail(tokens))

\* mutant: the tokens are joined without the separator
BaseCommandStringNoSep(cmd) == Join("", cmd)

BaseCommandString(cmd) == Join(" ", cmd)

OutputFileExtension(json) == IF json THEN ".json" ELSE ".txt"

\* mutant: the MIME type ignores the json_output option
OutputFileDataTypeAlwaysText(json) == "text/plain"

OutputFileDataType(json) == IF json THEN "application/json" ELSE "text/plain"

Digit(n) ==
    CASE n = 0 -> "0" [] n = 1 -> "1" [] n = 2 -> "2" [] n = 3 -> "3"
      [] n = 4 -> "4" [] n = 5 -> "5" [] n = 6 -> "6" [] n = 7 -> "7"
      [] n = 8 -> "8" [] OTHER -> "9"

\* create_output_file(output_path, display_name=, extension=, data_type=):
\* the n-th OutputFile the allocator hands out, with its own path
CreateOutputFile(n, dir, display_name, extension, data_type) ==
    [uuid |-> n,
     path |-> dir \o "/" \o Digit(n) \o extension,
     display_name |-> display_name,
     extension |-> extension,
     data_type |-> data_type]

\* output_file.to_dict()
ToDict(of) ==
    [path |-> of.path, display_name |-> of.display_name,
     data_type |-> of.data_type, extension |-> of.extension, uuid |-> of.uuid]

\* mutant: the child is given the display name instead of the path
CurrentCommandDisplayName(cmd, input_file) == Append(cmd, input_file.display_name)

\* base_command + [input_file.get("path")]
CurrentCommand(cmd, input_file) == Append(cmd, input_file.path)

AsciiChar(b) == IF b = 97 THEN "a" ELSE "?"

\* position (0-based) of the first byte that is not valid UTF-8, or -1
RECURSIVE FirstInvalid(_, _)
FirstInvalid(bytes, i) ==
    IF i > Len(bytes) THEN -1
    ELSE IF bytes[i] >= 128 THEN i - 1
    ELSE FirstInvalid(bytes, i + 1)

RECURSIVE DecodeAscii(_)
DecodeAscii(bytes) ==
    IF Len(bytes) = 0 THEN "" ELSE AsciiChar(Head(bytes)) \o DecodeAscii(Tail(bytes))

\* stderr.decode(): strict UTF-8
Decode(bytes) ==
    IF FirstInvalid(bytes, 1) = -1
    THEN [ok |-> TRUE, text |-> DecodeAscii(bytes)]
    ELSE [ok |-> FALSE, text |-> "'utf-8' codec can't decode byte 0xff in position "
                                  \o Digit(FirstInvalid(bytes, 1)) \o ": invalid start byte"]

\* f"ExifTool failed for {input_file.get('path')}: {stderr.decode()}"
ErrorMessage(path, text) == "ExifTool failed for " \o path \o ": " \o text

EmptyMessage == "No input files were processed or ExifTool produced no output."

NoError == [type |-> "None", message |-> ""]

\* what evaluating and raising lines 101-104 raises
FailureError(path, bytes) ==
    IF Decode(bytes).ok
    THEN [type |-> "RuntimeError", message |-> ErrorMessage(path, Decode(bytes).text)]
    ELSE [type |-> "UnicodeDecodeError", message |-> Decode(bytes).text]

\* create_task_result(output_files=, workflow_id=, command=, meta=): the
\* encoded result of the external result builder
CreateTaskResult(ofs, wid, command, meta) ==
    [encoded |-> "base64", output_files |-> ofs, workflow_id |-> wid,
     command |-> command, meta |-> meta]

NoOutputFile == [uuid |-> 0, path |-> "", display_name |-> "", extension |-> "", data_type |-> ""]

----------------------------------------------------------------------------
(* State machine *)

Init ==
    /\ task_config \in TaskConfigs
    /\ workflow_id \in WorkflowIds
    /\ output_path \in OutputPaths
    /\ pc = "entry"
    /\ input_files = <<>>
    /\ json_output_enabled = FALSE
    /\ base_command = <<>>
    /\ base_command_string = ""
    /\ idx = 0
    /\ output_file = NoOutputFile
    /\ output_files = <<>>
    /\ stderr = <<>>
    /\ allocated = <<>>
    /\ handles = <<>>
    /\ files = EmptyDict
    /\ popens = <<>>
    /\ children = <<>>
    /\ builderCalls = <<>>
    /\ returned = <<>>
    /\ error = NoError

\* lines 65-76: defaults, input resolution, base command
Configure ==
    /\ pc = "entry"
    /\ \E resolved \in InputLists : input_files' = resolved
    /\ json_output_enabled' = JsonOutputEnabled(task_config)
    /\ base_command' = BaseCommand(JsonOutputEnabled(task_config))
    /\ base_command_string' = BaseCommandString(BaseCommand(JsonOutputEnabled(task_config)))
    /\ output_files' = <<>>
    /\ pc' = "loop"
    /\ UNCHANGED <<stderr, task_config, workflow_id, output_path, idx, output_file,
                   allocated, handles, files, popens, children, builderCalls,
                   returned, error>>

\* lines 78-89: the loop takes the next input and allocates its output file
AllocateOutput ==
    /\ pc = "loop"
    /\ idx < Len(input_files)
    /\ idx' = idx + 1
    /\ output_file' = CreateOutputFile(Len(allocated) + 1, output_path,
                                       input_files[idx + 1].display_name,
                                       OutputFileExtension(json_output_enabled),
                                       OutputFileDataType(json_output_enabled))
    /\ allocated' = Append(allocated, output_file')
    /\ pc' = "allocated"
    /\ UNCHANGED <<stderr, task_config, workflow_id, output_path, input_files,
                   json_output_enabled, base_command, base_command_string,
                   output_files, handles, files, popens, children,
                   builderCalls, returned, error>>

\* mutant: every iteration opens the first output file
OpenPathFirst == allocated[1].path

\* the path line 95 opens
OpenPath == output_file.path

\* open(path, "w"): creates or truncates the file
Truncate(fs, path) ==
    IF path \in DOMAIN fs
    THEN [fs EXCEPT ![path] = [truncations |-> @.truncations + 1, writers |-> {}]]
    ELSE (path :> [truncations |-> 1, writers |-> {}]) @@ fs

\* lines 92-98: open the output file for writing and spawn the child
OpenAndPopen ==
    /\ pc = "allocated"
    /\ handles' = Append(handles, [path |-> OpenPath, mode |-> "w", closed |-> FALSE])
    /\ files' = Truncate(files, OpenPath)
    /\ popens' = Append(popens,
                        [args |-> CurrentCommand(base_command, input_files[idx]),
                         stdout |-> Len(handles) + 1,
                         stderr |-> "PIPE",
                         input |-> idx])
    /\ children' = Append(children, [state |-> "running"])
    /\ pc' = "communicate"
    /\ UNCHANGED <<stderr, task_config, workflow_id, output_path, input_files,
                   json_output_enabled, base_command, base_command_string, idx,
                   output_file, output_files, allocated, builderCalls,
                   returned, error>>

\* a running child writes to the file its stdout was redirected to
ChildWrite(c) ==
    /\ children[c].state = "running"
    /\ LET path == handles[popens[c].stdout].path IN
         /\ c \notin files[path].writers
         /\ files' = [files EXCEPT ![path].writers = @ \cup {c}]
    /\ UNCHANGED <<stderr, task_config, workflow_id, output_path, pc, input_files,
                   json_output_enabled, base_command, base_command_string, idx,
                   output_file, output_files, allocated, handles, popens,
                   children, builderCalls, returned, error>>

\* a running child exits with some return code, leaving some bytes on stderr
ChildExit(c) ==
    /\ children[c].state = "running"
    /\ \E rc \in ReturnCodes, bytes \in StderrValues :
         children' = [children EXCEPT
                        ![c] = [state |-> "exited", returncode |-> rc, stderr |-> bytes]]
    /\ UNCHANGED <<stderr, task_config, workflow_id, output_path, pc, input_files,
                   json_output_enabled, base_command, base_command_string, idx,
                   output_file, output_files, allocated, handles, files,
                   popens, builderCalls, returned, error>>

\* mutant: only exit code 1 counts as a failure
ReturnCodeFailedOnlyOne(rc) == rc = 1

\* line 100: "process.returncode != 0"
ReturnCodeFailed(rc) == rc /= 0

\* mutant: the child is spawned and never waited for
CommunicateNoWait ==
    /\ pc = "communicate"
    /\ handles' = [handles EXCEPT ![popens[Len(popens)].stdout].closed = TRUE]
    /\ output_files' = Append(output_files, ToDict(output_file))
    /\ pc' = "loop"
    /\ UNCHANGED <<task_config, workflow_id, output_path, input_files,
                   json_output_enabled, base_command, base_command_string, idx,
                   output_file, stderr, allocated, files, popens, children,
                   builderCalls, returned, error>>

\* process.communicate() returns once the child it waits for has exited
CommunicateReturns(c) == children[c].state = "exited"

\* lines 99-106: wait for the child, check its return code, leave the with block
Communicate ==
    /\ pc = "communicate"
    /\ LET c == Len(popens) IN
         /\ CommunicateReturns(c)
         /\ children' = [children EXCEPT
                           ![c] = [state |-> "reaped", returncode |-> children[c].returncode]]
         /\ stderr' = children[c].stderr
         /\ handles' = [handles EXCEPT ![popens[c].stdout].closed = TRUE]
         /\ IF ReturnCodeFailed(children[c].returncode)
            THEN /\ error' = FailureError(input_files[idx].path, children[c].stderr)
                 /\ pc' = "raised"
                 /\ UNCHANGED output_files
            ELSE /\ output_files' = Append(output_files, ToDict(output_file))
                 /\ pc' = "loop"
                 /\ UNCHANGED error
    /\ UNCHANGED <<task_config, workflow_id, output_path, input_files,
                   json_output_enabled, base_command, base_command_string, idx,
                   output_file, allocated, files, popens, builderCalls, returned>>

\* mutant: the emptiness check is dropped
NoOutputNever == FALSE

\* line 108: "if not output_files"
NoOutput == Len(output_files) = 0

\* lines 108-111: nothing was produced
RaiseEmpty ==
    /\ pc = "loop"
    /\ idx = Len(input_files)
    /\ NoOutput
    /\ error' = [type |-> "RuntimeError", message |-> EmptyMessage]
    /\ pc' = "raised"
    /\ UNCHANGED <<stderr, task_config, workflow_id, output_path, input_files,
                   json_output_enabled, base_command, base_command_string, idx,
                   output_file, output_files, allocated, handles, files,
                   popens, children, builderCalls, returned>>

\* mutant: only the last output file is reported
ResultArgsLastOnly ==
    [output_files |-> <<ToDict(output_file)>>, workflow_id |-> workflow_id,
     command |-> base_command_string, meta |-> EmptyDict]

\* the arguments of the create_task_result call of lines 113-118
ResultArgs ==
    [output_files |-> output_files, workflow_id |-> workflow_id,
     command |-> base_command_string, meta |-> EmptyDict]

\* lines 113-118: build and return the task result
ReturnResult ==
    /\ pc = "loop"
    /\ idx = Len(input_files)
    /\ ~NoOutput
    /\ LET a == ResultArgs
           ret == CreateTaskResult(a.output_files, a.workflow_id, a.command, a.meta) IN
         /\ builderCalls' = Append(builderCalls, [args |-> a, ret |-> ret])
         /\ returned' = <<ret>>
    /\ pc' = "returned"
    /\ UNCHANGED <<stderr, task_config, workflow_id, output_path, input_files,
                   json_output_enabled, base_command, base_command_string, idx,
                   output_file, output_files, allocated, handles, files,
                   popens, children, error>>

ChildWrites == \E c \in 1..Len(children) : ChildWrite(c)

ChildExits == \E c \in 1..Len(children) : ChildExit(c)

Next ==
    \/ Configure
    \/ AllocateOutput
    \/ OpenAndPopen
    \/ ChildWrites
    \/ ChildExits
    \/ Communicate
    \/ RaiseEmpty
    \/ ReturnResult

Spec == Init /\ [][Next]_vars

\* command() runs to its end once called, and every spawned child
\* eventually exits
FairSpec ==
    /\ Spec
    /\ WF_vars(Configure)
    /\ WF_vars(AllocateOutput)
    /\ WF_vars(OpenAndPopen)
    /\ WF_vars(ChildExits)
    /\ WF_vars(Communicate)
    /\ WF_vars(RaiseEmpty)
    /\ WF_vars(ReturnResult)

----------------------------------------------------------------------------
(* Vocabulary of the properties, stated on the parameters and the logs *)

Terminated == pc \in {"returned", "raised"}

\* sub occurs in s
Contains(s, sub) ==
    \/ Len(sub) = 0
    \/ \E i \in 1..(Len(s) - Len(sub) + 1) : SubSeq(s, i, i + Len(sub) - 1) = sub

\* json_output is given and true
WantJson ==
    /\ ~task_config.isNone
    /\ "json_output" \in DOMAIN task_config.dict
    /\ task_config.dict["json_output"]

WantTokens == IF WantJson THEN <<"exiftool", "-json">> ELSE <<"exiftool">>

WantCommand == IF WantJson THEN "exiftool -json" ELSE "exiftool"

Running(c) == children[c].state = "running"

\* child c has exited with code 0
ExitedZero(c) ==
    /\ children[c].state \in {"exited", "reaped"}
    /\ children[c].returncode = 0

\* child c has exited 0 and command() has checked its return code
CheckedZero(c) ==
    /\ children[c].state = "reaped"
    /\ children[c].returncode = 0

\* child c has exited non-zero and command() has checked its return code
CheckedFailed(c) ==
    /\ children[c].state = "reaped"
    /\ children[c].returncode /= 0

SucceededInputs == {c \in 1..Len(children) : ExitedZero(c)}

CheckedInputs == {c \in 1..Len(children) : CheckedZero(c)}

\* the serialized form of the i-th allocated output file
WantSerialized(i) ==
    [path |-> allocated[i].path, display_name |-> input_files[i].display_name,
     data_type |-> IF WantJson THEN "application/json" ELSE "text/plain",
     extension |-> IF WantJson THEN ".json" ELSE ".txt",
     uuid |-> allocated[i].uuid]

----------------------------------------------------------------------------
(* C1: once a child has exited non-zero and its code was checked, the task *)
(* has raised an error whose message contains the failing input's path and *)
(* the captured stderr text, no later input was allocated or spawned, and  *)
(* no result was built or returned.                                        *)
C1_FailureNamesPathAndStderr ==
    \A c \in 1..Len(children) :
        CheckedFailed(c) =>
            /\ pc = "raised"
            /\ Contains(error.message, input_files[c].path)
            /\ Decode(stderr).ok => Contains(error.message, Decode(stderr).text)
            /\ Len(popens) = c
            /\ Len(allocated) = c
            /\ builderCalls = <<>>
            /\ returned = <<>>

(* C2 as stated: a run that has ended made exactly N invocations, the i-th *)
(* with the base tokens plus the i-th path.                                *)
C2_ExactlyNInvocations ==
    Terminated =>
        /\ Len(popens) = Len(input_files)
        /\ \A i \in 1..Len(popens) :
               popens[i].args = WantTokens \o <<input_files[i].path>>

(* C2 amended: the invocations made are for the first k <= N inputs, in    *)
(* input order, the i-th with the base tokens plus the i-th path, every    *)
(* one but the last having exited 0; a run that ended without a non-zero   *)
(* exit made exactly N of them.                                            *)
C2_InvocationsInInputOrder ==
    /\ Len(popens) <= Len(input_files)
    /\ \A i \in 1..Len(popens) :
           /\ popens[i].args = WantTokens \o <<input_files[i].path>>
           /\ popens[i].input = i
           /\ i < Len(popens) => CheckedZero(i)
    /\ (Terminated /\ \A c \in 1..Len(children) : ExitedZero(c))
           => Len(popens) = Len(input_files)

C2_Witness ==
    /\ pc = "returned"
    /\ Len(popens) = 2
    /\ input_files[1] /= input_files[2]

(* C3: with an empty resolved input list the task raises the "no input"    *)
(* error and cannot return; no result is ever built from, or returned      *)
(* with, an empty output list.                                             *)
C3_EmptyInputRaises ==
    /\ (pc = "loop" /\ Len(input_files) = 0)
           => (ENABLED RaiseEmpty /\ ~ENABLED ReturnResult)
    /\ (Terminated /\ Len(input_files) = 0)
           => /\ pc = "raised"
              /\ error = [type |-> "RuntimeError", message |-> EmptyMessage]
              /\ returned = <<>>
    /\ \A i \in 1..Len(builderCalls) : Len(builderCalls[i].args.output_files) > 0
    /\ \A i \in 1..Len(returned) : Len(returned[i].output_files) > 0

C3_Witness ==
    /\ pc = "raised"
    /\ Len(input_files) = 0
    /\ error.message = EmptyMessage

(* C4 as stated: the number of output files allocated equals the number of *)
(* inputs whose child exited 0, the state in which the task has failed     *)
(* included (read between the iterations of the loop and at the end, where *)
(* no input is half processed).                                            *)
C4_AllocatedEqualsSucceeded ==
    pc \in {"loop", "returned", "raised"} =>
        Len(allocated) = Cardinality(SucceededInputs)

(* C4 amended: in every state the number of serialized output files in the *)
(* result list equals the number of inputs whose child exited 0 and was    *)
(* checked; the number of output files allocated is that number, plus one  *)
(* while an input is in flight or after the task failed on it; when the    *)
(* task returns, both equal N.                                             *)
C4_OutputsEqualChecked ==
    /\ Len(output_files) = Cardinality(CheckedInputs)
    /\ Len(allocated) = Len(output_files)
          + (IF \/ pc \in {"allocated", "communicate"}
                \/ (pc = "raised" /\ Len(children) > 0)
             THEN 1 ELSE 0)
    /\ pc = "returned" =>
          /\ Len(allocated) = Len(input_files)
          /\ Cardinality(SucceededInputs) = Len(input_files)

C4_Witness ==
    /\ pc = "raised"
    /\ Len(allocated) = 2
    /\ Len(output_files) = 1
    /\ Cardinality(SucceededInputs) = 1

(* C5: the recorded command string is "exiftool -json" when json_output is *)
(* true and "exiftool" when it is false, absent or task_config is None; it *)
(* is what the result builder is given and contains no input path.         *)
C5_CommandString ==
    /\ pc /= "entry" => base_command_string = WantCommand
    /\ \A i \in 1..Len(builderCalls) :
           /\ builderCalls[i].args.command = WantCommand
           /\ \A j \in 1..Len(input_files) :
                  ~Contains(builderCalls[i].args.command, input_files[j].path)
    /\ \A i \in 1..Len(returned) : returned[i].command = WantCommand

C5_Witness ==
    /\ pc = "returned"
    /\ WantJson
    /\ Len(input_files) = 2
    /\ returned[1].command = "exiftool -json"

(* C6: every output file is allocated with ".json" / "application/json"    *)
(* when json_output is true and with ".txt" / "text/plain" otherwise, and  *)
(* the children get the -json flag exactly in the first case.              *)
C6_ExtensionAndMimeType ==
    /\ \A i \in 1..Len(allocated) :
           /\ WantJson =>
                  /\ allocated[i].extension = ".json"
                  /\ allocated[i].data_type = "application/json"
           /\ ~WantJson =>
                  /\ allocated[i].extension = ".txt"
                  /\ allocated[i].data_type = "text/plain"
    /\ \A i \in 1..Len(popens) :
           WantJson <=> (\E k \in 1..Len(popens[i].args) : popens[i].args[k] = "-json")

C6_Witness ==
    /\ Len(allocated) = 2
    /\ Len(popens) = 2
    /\ task_config.isNone
    /\ allocated[2].data_type = "text/plain"

(* C7: at most one child is running at any time, and every child but the   *)
(* last spawned has exited and had its exit code checked.                  *)
C7_OneChildAtATime ==
    /\ Cardinality({c \in 1..Len(children) : Running(c)}) <= 1
    /\ \A c \in 1..Len(children) :
           c < Len(children) => children[c].state = "reaped"

C7_Witness ==
    /\ Len(children) = 3
    /\ Running(3)

(* C8: the result is built at most once, only when the task returns, after *)
(* every input's child exited 0; it is built from one serialized output    *)
(* file per input in input order, the workflow id, the base command string *)
(* and an empty metadata map, and the task returns what the builder        *)
(* returned.                                                               *)
C8_ResultBuiltOnceAtEnd ==
    /\ Len(builderCalls) <= 1
    /\ pc = "returned" <=> Len(builderCalls) = 1
    /\ pc = "returned" <=> Len(returned) = 1
    /\ \A b \in 1..Len(builderCalls) :
           /\ idx = Len(input_files)
           /\ Len(children) = Len(input_files)
           /\ \A c \in 1..Len(children) : CheckedZero(c)
           /\ Len(builderCalls[b].args.output_files) = Len(input_files)
           /\ \A i \in 1..Len(input_files) :
                  builderCalls[b].args.output_files[i] = WantSerialized(i)
           /\ builderCalls[b].args.workflow_id = workflow_id
           /\ builderCalls[b].args.command = WantCommand
           /\ builderCalls[b].args.meta = EmptyDict
           /\ returned = <<builderCalls[b].ret>>

C8_Witness ==
    /\ pc = "returned"
    /\ Len(builderCalls) = 1
    /\ Len(builderCalls[1].args.output_files) = 3

(* C9: the stdout target of the i-th child is its own handle, opened in    *)
(* "w" mode on the output file allocated for the i-th input; no two        *)
(* children share a handle or an output file, every output file is opened  *)
(* (truncated) once and written by its own child only.                     *)
C9_FreshHandlePerInput ==
    /\ \A i \in 1..Len(popens) :
           LET h == popens[i].stdout IN
             /\ h \in 1..Len(handles)
             /\ handles[h].mode = "w"
             /\ handles[h].path = allocated[i].path
             /\ allocated[i].display_name = input_files[i].display_name
             /\ handles[h].closed <=> children[i].state = "reaped"
             /\ files[allocated[i].path].truncations = 1
             /\ files[allocated[i].path].writers \subseteq {i}
    /\ \A i, j \in 1..Len(popens) :
           i /= j =>
               /\ popens[i].stdout /= popens[j].stdout
               /\ handles[popens[i].stdout].path /= handles[popens[j].stdout].path

C9_Witness ==
    /\ Len(popens) = 2
    /\ files[allocated[1].path].writers = {1}
    /\ files[allocated[2].path].writers = {2}

\* the task returned a result built from N >= 1 successful inputs
OutcomeResult ==
    /\ pc = "returned"
    /\ Len(input_files) >= 1
    /\ Len(children) = Len(input_files)
    /\ \A c \in 1..Len(children) : CheckedZero(c)

\* the task raised the tool failure for the first input that exited non-zero
OutcomeToolExecutionFailure ==
    /\ pc = "raised"
    /\ Len(children) >= 1
    /\ CheckedFailed(Len(children))
    /\ \A c \in 1..(Len(children) - 1) : CheckedZero(c)
    /\ error.type = "RuntimeError"
    /\ Contains(error.message, input_files[Len(children)].path)

\* the task raised because no input was resolved
OutcomeEmptyResultFailure ==
    /\ pc = "raised"
    /\ Len(input_files) = 0
    /\ error = [type |-> "RuntimeError", message |-> EmptyMessage]

(* C10: when every spawned child eventually exits, the task eventually     *)
(* ends for good, it ends in one of three outcomes (a result, the tool     *)
(* failure of the first non-zero exit, the empty-result failure), and no   *)
(* input is ever processed twice or skipped.                               *)
C10_EndsInOneOfThreeOutcomes ==
    /\ <>[]Terminated
    /\ [](Terminated => \/ OutcomeResult
                        \/ OutcomeToolExecutionFailure
                        \/ OutcomeEmptyResultFailure)
    /\ [](\A i \in 1..Len(popens) : popens[i].input = i)

\* under FairSpec every run of command() ends
Termination == <>[]Terminated

====
